---- MODULE Spec2Model ----
(***************************************************************************)
(* Model of examples/service-worker/webpack.config.js: a factory that      *)
(* returns a webpack configuration object.  Strings are sequences of       *)
(* one-character strings, so that path joining, regular-expression tests   *)
(* and filename templates are computed character by character.             *)
(***************************************************************************)
EXTENDS Integers, Sequences, FiniteSets, TLC

VARIABLES dirname, files, pc, callLog, buildErrors

vars == <<dirname, files, pc, callLog, buildErrors>>

\* ------------------------------------------------------------------ bounds
MaxDepth == 2
MaxCalls == 2

\* ------------------------------------------------------- string literals
SLASH == <<"/">>
STR_src_index_ts == <<"s","r","c","/","i","n","d","e","x",".","t","s">>
STR_src_sw_ts == <<"s","r","c","/","s","w",".","t","s">>
STR_src_sw_js == <<"s","r","c","/","s","w",".","j","s">>
STR_main_js == <<"m","a","i","n",".","j","s">>
STR_sw_js == <<"s","w",".","j","s">>
STR_dist == <<"d","i","s","t">>
STR_name_js == <<"[","n","a","m","e","]",".","j","s">>
STR_bundle_js == <<"b","u","n","d","l","e",".","j","s">>
STR_name_token == <<"[","n","a","m","e","]">>
STR_src_index_html == <<"s","r","c","/","i","n","d","e","x",".","h","t","m","l">>
STR_index_html == <<"i","n","d","e","x",".","h","t","m","l">>
STR_main == <<"m","a","i","n">>
STR_sw == <<"s","w">>
STR_app == <<"a","p","p">>
STR_development == <<"d","e","v","e","l","o","p","m","e","n","t">>
STR_production == <<"p","r","o","d","u","c","t","i","o","n">>
STR_none == <<"n","o","n","e">>
STR_dev == <<"d","e","v">>
STR_webworker == <<"w","e","b","w","o","r","k","e","r">>
STR_ts_loader == <<"t","s","-","l","o","a","d","e","r">>
STR_node_modules == <<"n","o","d","e","_","m","o","d","u","l","e","s">>
STR_node_module == <<"n","o","d","e","_","m","o","d","u","l","e">>
STR_dot == <<".">>
STR_dotdot == <<".",".">>
\* regular-expression sources, as written between the slashes
RE_tsx == <<"\\",".","t","s","x","?","$">>
RE_ts == <<"\\",".","t","s","$">>
RE_node_modules == STR_node_modules

Chars ==
    { "a","b","c","d","e","f","g","h","i","j","k","l","m","n","o","p","q","r",
      "s","t","u","v","w","x","y","z","/",".","_","-","[","]","\\","?","$" }

IsString(x) == x \in Seq(Chars)

\* --------------------------------------------------------- string helpers
RECURSIVE Concat(_)
Concat(ss) == IF ss = <<>> THEN <<>> ELSE Head(ss) \o Concat(Tail(ss))

StartsWithAt(s, i, t) ==
    /\ i + Len(t) - 1 <= Len(s)
    /\ \A k \in 1..Len(t) : s[i + k - 1] = t[k]

Contains(s, t) == \E i \in 1..(Len(s) + 1) : StartsWithAt(s, i, t)

\* split s on the separator character "/"
RECURSIVE SplitFrom(_, _, _, _)
SplitFrom(s, i, cur, acc) ==
    IF i > Len(s) THEN Append(acc, cur)
    ELSE IF s[i] = "/" THEN SplitFrom(s, i + 1, <<>>, Append(acc, cur))
    ELSE SplitFrom(s, i + 1, Append(cur, s[i]), acc)

Split(s) == SplitFrom(s, 1, <<>>, <<>>)

RECURSIVE JoinSegs(_)
JoinSegs(segs) ==
    IF segs = <<>> THEN <<>>
    ELSE IF Len(segs) = 1 THEN segs[1]
    ELSE segs[1] \o SLASH \o JoinSegs(Tail(segs))

\* ------------------------------------------------- path.join (posix rules)
RECURSIVE normalizeString(_, _, _)
normalizeString(segs, allowAboveRoot, res) ==
    IF segs = <<>> THEN res
    ELSE LET seg == Head(segs)
             rest == Tail(segs)
         IN  IF seg = <<>> \/ seg = STR_dot
                 THEN normalizeString(rest, allowAboveRoot, res)
             ELSE IF seg = STR_dotdot
                 THEN IF res # <<>> /\ res[Len(res)] # STR_dotdot
                          THEN normalizeString(rest, allowAboveRoot,
                                               SubSeq(res, 1, Len(res) - 1))
                      ELSE IF allowAboveRoot
                          THEN normalizeString(rest, allowAboveRoot, Append(res, seg))
                      ELSE normalizeString(rest, allowAboveRoot, res)
             ELSE normalizeString(rest, allowAboveRoot, Append(res, seg))

normalize(path) ==
    IF path = <<>> THEN STR_dot
    ELSE LET isAbsolute == path[1] = "/"
             trailingSeparator == path[Len(path)] = "/"
             body == JoinSegs(normalizeString(Split(path), ~isAbsolute, <<>>))
         IN  IF body = <<>>
                 THEN IF isAbsolute THEN SLASH
                      ELSE IF trailingSeparator THEN STR_dot \o SLASH ELSE STR_dot
             ELSE (IF isAbsolute THEN SLASH ELSE <<>>) \o body
                  \o (IF trailingSeparator THEN SLASH ELSE <<>>)

path_join(a, b) ==
    IF a = <<>> /\ b = <<>> THEN STR_dot
    ELSE IF a = <<>> THEN normalize(b)
    ELSE IF b = <<>> THEN normalize(a)
    ELSE normalize(a \o SLASH \o b)

\* ---------------------------------------------- regular expressions (test)
\* A pattern source is compiled to a list of atoms; "\" escapes the next
\* character, an unescaped "." matches any character, "?" makes the previous
\* atom optional and a final "$" anchors the match at the end of the input.
RECURSIVE RegExpAtoms(_, _, _)
RegExpAtoms(src, i, acc) ==
    IF i > Len(src) THEN acc
    ELSE IF src[i] = "\\" /\ i < Len(src)
        THEN RegExpAtoms(src, i + 2,
                 Append(acc, [c |-> src[i + 1], any |-> FALSE, opt |-> FALSE]))
    ELSE IF src[i] = "?" /\ acc # <<>>
        THEN RegExpAtoms(src, i + 1,
                 [acc EXCEPT ![Len(acc)] = [@ EXCEPT !.opt = TRUE]])
    ELSE IF src[i] = "$" /\ i = Len(src)
        THEN acc
    ELSE RegExpAtoms(src, i + 1,
             Append(acc, [c |-> src[i], any |-> src[i] = ".", opt |-> FALSE]))

RegExp(src) ==
    [source |-> src,
     atoms |-> RegExpAtoms(src, 1, <<>>),
     anchorEnd |-> src # <<>> /\ src[Len(src)] = "$"
                   /\ (Len(src) = 1 \/ src[Len(src) - 1] # "\\")]

RECURSIVE MatchAt(_, _, _, _)
MatchAt(re, k, s, i) ==
    IF k > Len(re.atoms) THEN (re.anchorEnd => i = Len(s) + 1)
    ELSE \/ /\ i <= Len(s)
            /\ (re.atoms[k].any \/ s[i] = re.atoms[k].c)
            /\ MatchAt(re, k + 1, s, i + 1)
         \/ /\ re.atoms[k].opt
            /\ MatchAt(re, k + 1, s, i)

RegExpTest(re, s) == \E i \in 1..(Len(s) + 1) : MatchAt(re, 1, s, i)

\* A rule applies to a resource when its test matches and its exclude does not.
RuleApplies(rule, resource) ==
    RegExpTest(rule.test, resource) /\ ~RegExpTest(rule.exclude, resource)

\* ------------------------------------------- output.filename substitution
\* Every occurrence of the token [name] is replaced by the chunk name.
RECURSIVE ReplaceName(_, _, _)
ReplaceName(template, i, name) ==
    IF i > Len(template) THEN <<>>
    ELSE IF StartsWithAt(template, i, STR_name_token)
        THEN name \o ReplaceName(template, i + Len(STR_name_token), name)
    ELSE <<template[i]>> \o ReplaceName(template, i + 1, name)

AssetName(template, name) == ReplaceName(template, 1, name)

\* ------------------------------------------------ the configuration object
mode_dev == STR_dev

mode == STR_development

entry_swJs ==
    (STR_main :> path_join(dirname, STR_src_index_ts))
        @@ (STR_sw :> path_join(dirname, STR_src_sw_js))

entry ==
    (STR_main :> path_join(dirname, STR_src_index_ts))
        @@ (STR_sw :> path_join(dirname, STR_src_sw_ts))

target == <<STR_webworker>>

output_emptyFilename ==
    [path |-> path_join(dirname, STR_dist),
     filename |-> <<>>,
     publicPath |-> SLASH]

output_fixedName ==
    [path |-> path_join(dirname, STR_dist),
     filename |-> STR_bundle_js,
     publicPath |-> SLASH]

output ==
    [path |-> path_join(dirname, STR_dist),
     filename |-> STR_name_js,
     publicPath |-> SLASH]

rules_tsOnly ==
    << [test |-> RegExp(RE_ts),
        exclude |-> RegExp(RE_node_modules),
        use |-> << [loader |-> STR_ts_loader] >>] >>

rules ==
    << [test |-> RegExp(RE_tsx),
        exclude |-> RegExp(RE_node_modules),
        use |-> << [loader |-> STR_ts_loader] >>] >>

\* new HtmlWebpackPlugin(options): the instance keeps the options it was given
HtmlWebpackPlugin(options) ==
    [constructorName |-> "HtmlWebpackPlugin", userOptions |-> options]

plugins_unknownChunk ==
    << HtmlWebpackPlugin([template |-> STR_src_index_html,
                          filename |-> STR_index_html,
                          chunks |-> <<STR_app>>]) >>

plugins_allChunks ==
    << HtmlWebpackPlugin([template |-> STR_src_index_html,
                          filename |-> STR_index_html,
                          chunks |-> <<STR_main, STR_sw>>]) >>

plugins ==
    << HtmlWebpackPlugin([template |-> STR_src_index_html,
                          filename |-> STR_index_html,
                          chunks |-> <<STR_main>>]) >>

configObject ==
    [mode |-> mode,
     entry |-> entry,
     target |-> target,
     output |-> output,
     module |-> [rules |-> rules],
     plugins |-> plugins]

\* The paths the configuration refers to: the entry files and the template.
ReferencedPaths(cfg) ==
    {cfg.entry[k] : k \in DOMAIN cfg.entry}
        \cup {cfg.plugins[i].userOptions.template : i \in DOMAIN cfg.plugins}

\* A call of the factory completes by returning a value or by throwing.
moduleExports_envMode(env, argv) ==
    [type |-> "return",
     value |-> [configObject EXCEPT
                   !.mode = IF env.production THEN STR_production ELSE mode]]

moduleExports_validating(env, argv) ==
    [type |-> IF ReferencedPaths(configObject) \subseteq files
                  THEN "return" ELSE "throw",
     value |-> configObject]

moduleExports(env, argv) == [type |-> "return", value |-> configObject]

\* ------------------------------------------------------------ environment
DirSegs == {STR_app, STR_node_modules, STR_node_module}

\* the directories the configuration file may be located in: absolute,
\* normalized paths of at most MaxDepth segments
Dirs ==
    { SLASH \o JoinSegs(p) :
        p \in UNION { [1..n -> DirSegs] : n \in 0..MaxDepth } }

\* the arguments webpack passes to a configuration function
EnvValues == { [production |-> b] : b \in BOOLEAN }
ArgvValues == { [mode |-> m] : m \in {STR_development, STR_production} }

\* ------------------------------------------------------------ the machine
Init ==
    /\ dirname \in Dirs
    /\ files \in SUBSET { path_join(dirname, STR_src_index_ts),
                          path_join(dirname, STR_src_sw_ts),
                          STR_src_index_html }
    /\ pc = "loaded"
    /\ callLog = <<>>
    /\ buildErrors = {}

\* the bundler (or any caller) evaluates the exported factory
Evaluate(env, argv) ==
    /\ pc \in {"loaded", "evaluated"}
    /\ Len(callLog) < MaxCalls
    /\ callLog' = Append(callLog, [env |-> env, argv |-> argv,
                                   completion |-> moduleExports(env, argv)])
    /\ pc' = "evaluated"
    /\ UNCHANGED <<dirname, files, buildErrors>>

\* the bundler reads the configuration it was last given and reports every
\* referenced path that does not exist
Build ==
    /\ pc = "evaluated"
    /\ callLog[Len(callLog)].completion.type = "return"
    /\ buildErrors' =
           ReferencedPaths(callLog[Len(callLog)].completion.value) \ files
    /\ pc' = "built"
    /\ UNCHANGED <<dirname, files, callLog>>

Next ==
    \/ \E env \in EnvValues, argv \in ArgvValues : Evaluate(env, argv)
    \/ Build

Spec == Init /\ [][Next]_vars

\* the configurations returned so far
Returned ==
    { callLog[i].completion.value :
        i \in { j \in DOMAIN callLog : callLog[j].completion.type = "return" } }

\* the chunks one HTML plugin instance injects as page scripts, by asset name
InjectedScripts(cfg, plugin) ==
    { AssetName(cfg.output.filename, plugin.userOptions.chunks[i]) :
        i \in { j \in DOMAIN plugin.userOptions.chunks :
                  plugin.userOptions.chunks[j] \in DOMAIN cfg.entry } }

\* the script assets emitted for the entry points
EmittedScripts(cfg) ==
    { AssetName(cfg.output.filename, k) : k \in DOMAIN cfg.entry }

SeqToSet(q) == { q[i] : i \in DOMAIN q }

\* =================================================================== claims

\* C1: in every configuration the factory returns, each chunk name in the
\* HTML plugin's chunks list is a key of the entry mapping.
C1_ChunksAreEntries ==
    \A cfg \in Returned :
        \A i \in DOMAIN cfg.plugins :
            SeqToSet(cfg.plugins[i].userOptions.chunks) \subseteq DOMAIN cfg.entry

C1_Witness ==
    \E cfg \in Returned :
        \E i \in DOMAIN cfg.plugins :
            STR_main \in SeqToSet(cfg.plugins[i].userOptions.chunks)

\* the bundler's schema for the options this configuration sets
ModeEnum == {STR_development, STR_production, STR_none}

IsRegExp(x) ==
    /\ {"source", "atoms", "anchorEnd"} \subseteq DOMAIN x
    /\ IsString(x.source)

IsRule(r) ==
    /\ {"test", "exclude", "use"} \subseteq DOMAIN r
    /\ IsRegExp(r.test)
    /\ IsRegExp(r.exclude)
    /\ r.use # <<>>
    /\ \A i \in DOMAIN r.use :
           "loader" \in DOMAIN r.use[i] /\ IsString(r.use[i].loader)
                                        /\ r.use[i].loader # <<>>

IsPluginInstance(x) ==
    /\ {"constructorName", "userOptions"} \subseteq DOMAIN x
    /\ x.constructorName = "HtmlWebpackPlugin"
    /\ {"template", "filename", "chunks"} \subseteq DOMAIN x.userOptions
    /\ IsString(x.userOptions.template)
    /\ IsString(x.userOptions.filename)
    /\ x.userOptions.chunks \in Seq(Seq(Chars))

WellFormed(cfg) ==
    /\ {"mode", "entry", "target", "output", "module", "plugins"}
           \subseteq DOMAIN cfg
    /\ cfg.mode \in ModeEnum
    /\ DOMAIN cfg.entry # {}
    /\ \A k \in DOMAIN cfg.entry :
           IsString(k) /\ k # <<>> /\ IsString(cfg.entry[k]) /\ cfg.entry[k] # <<>>
    /\ cfg.target \in Seq(Seq(Chars))
    /\ {"path", "filename", "publicPath"} \subseteq DOMAIN cfg.output
    /\ IsString(cfg.output.path)
    /\ IsString(cfg.output.filename)
    /\ IsString(cfg.output.publicPath)
    /\ "rules" \in DOMAIN cfg.module
    /\ DOMAIN cfg.module.rules = 1..Len(cfg.module.rules)
    /\ \A i \in DOMAIN cfg.module.rules : IsRule(cfg.module.rules[i])
    /\ DOMAIN cfg.plugins = 1..Len(cfg.plugins)
    /\ \A i \in DOMAIN cfg.plugins : IsPluginInstance(cfg.plugins[i])

\* C2: every configuration the factory returns has the keys mode, entry,
\* target, output, module.rules and plugins, each of the type the bundler's
\* schema expects (mode a member of the mode enum).
C2_WellFormed == \A cfg \in Returned : WellFormed(cfg)

C2_Witness ==
    \E cfg \in Returned :
        cfg.mode = STR_development /\ Len(cfg.module.rules) = 1
            /\ Len(cfg.plugins) = 1

\* C3: output.path and output.filename of every returned configuration are
\* non-empty strings, whatever directory the configuration file is in.
C3_OutputNonEmpty ==
    \A cfg \in Returned :
        /\ IsString(cfg.output.path) /\ cfg.output.path # <<>>
        /\ IsString(cfg.output.filename) /\ cfg.output.filename # <<>>

\* reached for the root directory, the shortest output.path
C3_Witness ==
    /\ dirname = SLASH
    /\ \E cfg \in Returned : cfg.output.path = SLASH \o STR_dist

\* C5: an evaluation leaves the module's directory and the file system as
\* they were and completes exactly as the evaluation before it did, whatever
\* arguments either was given.
C5_Deterministic ==
    [][ Len(callLog') = Len(callLog) + 1 =>
          /\ dirname' = dirname
          /\ files' = files
          /\ buildErrors' = buildErrors
          /\ SubSeq(callLog', 1, Len(callLog)) = callLog
          /\ callLog # <<>> =>
                 callLog'[Len(callLog')].completion
                     = callLog[Len(callLog)].completion ]_vars

C5_Witness ==
    /\ Len(callLog) >= 2
    /\ callLog[1].env # callLog[2].env
    /\ callLog[1].argv # callLog[2].argv
    /\ callLog[1].completion = callLog[2].completion

\* C6: every evaluation of the factory returns a configuration, also when a
\* file it refers to is missing; a missing file is reported only by the
\* build, after the configuration was returned.
C6_NoErrorOutcome ==
    /\ \A i \in DOMAIN callLog : callLog[i].completion.type = "return"
    /\ buildErrors # {} => pc = "built" /\ callLog # <<>>

C6_Witness ==
    /\ pc = "built"
    /\ buildErrors # {}
    /\ callLog[Len(callLog)].completion.type = "return"

\* file names used to find the extensions a rule selects
STR_ts == <<"t","s">>
STR_tsx == <<"t","s","x">>
ExtUniverse ==
    { STR_ts, STR_tsx, <<"j","s">>, <<"j","s","x">>, <<"t">>,
      <<"t","s","x","x">>, <<"x","t","s">>, <<"h","t","m","l">> }
Stems == { <<"a">>, <<"a",".","d">>, <<"/","s","r","c","/","a">> }

SelectedExts(rule) ==
    { e \in ExtUniverse :
        \E st \in Stems : RuleApplies(rule, st \o STR_dot \o e) }

\* C7 as stated: module.rules holds exactly one rule and that rule selects
\* the files of exactly one extension.
C7_OneExtension ==
    \A cfg \in Returned :
        /\ Len(cfg.module.rules) = 1
        /\ Cardinality(SelectedExts(cfg.module.rules[1])) = 1

\* C7 amended: module.rules holds exactly one rule and that rule selects the
\* files of exactly two extensions, ts and tsx.
C7_TwoExtensions ==
    \A cfg \in Returned :
        /\ Len(cfg.module.rules) = 1
        /\ SelectedExts(cfg.module.rules[1]) = {STR_ts, STR_tsx}

C7_Witness ==
    \E cfg \in Returned :
        /\ RuleApplies(cfg.module.rules[1], <<"a",".","t","s","x">>)
        /\ RuleApplies(cfg.module.rules[1], <<"a",".","t","s">>)

\* C8: the asset names emitted for the entry points are pairwise distinct
\* (main.js, sw.js) and none equals an HTML plugin's output filename.
C8_NoAssetCollision ==
    \A cfg \in Returned :
        /\ \A k1, k2 \in DOMAIN cfg.entry :
               k1 # k2 => AssetName(cfg.output.filename, k1)
                              # AssetName(cfg.output.filename, k2)
        /\ EmittedScripts(cfg) = {STR_main_js, STR_sw_js}
        /\ \A i \in DOMAIN cfg.plugins :
               cfg.plugins[i].userOptions.filename \notin EmittedScripts(cfg)

C8_Witness ==
    \E cfg \in Returned :
        /\ Cardinality(DOMAIN cfg.entry) = 2
        /\ STR_sw_js \in EmittedScripts(cfg)
        /\ cfg.plugins[1].userOptions.filename = STR_index_html

\* C9: every entry path matches the rule's test pattern, the rule applies to
\* it exactly when it does not match the exclude pattern, and that is
\* exactly when the configuration's directory does not contain node_modules.
C9_EntriesCovered ==
    \A cfg \in Returned :
        \A k \in DOMAIN cfg.entry :
            \A i \in DOMAIN cfg.module.rules :
                /\ RegExpTest(cfg.module.rules[i].test, cfg.entry[k])
                /\ RuleApplies(cfg.module.rules[i], cfg.entry[k])
                       <=> ~RegExpTest(cfg.module.rules[i].exclude, cfg.entry[k])
                /\ RuleApplies(cfg.module.rules[i], cfg.entry[k])
                       <=> ~Contains(dirname, STR_node_modules)

\* the excluded case: the configuration file lies under node_modules
C9_Witness ==
    /\ Contains(dirname, STR_node_modules)
    /\ \E cfg \in Returned :
           \A k \in DOMAIN cfg.entry :
               ~RuleApplies(cfg.module.rules[1], cfg.entry[k])

\* C10: the HTML plugin's chunks are a proper subset of the entry keys that
\* holds main and not sw: the page loads main.js only, and sw.js is emitted
\* without being injected.
C10_SwNotInjected ==
    \A cfg \in Returned :
        \A i \in DOMAIN cfg.plugins :
            LET chunks == SeqToSet(cfg.plugins[i].userOptions.chunks)
            IN  /\ chunks \subseteq DOMAIN cfg.entry
                /\ chunks # DOMAIN cfg.entry
                /\ STR_main \in chunks
                /\ STR_sw \notin chunks
                /\ InjectedScripts(cfg, cfg.plugins[i]) = {STR_main_js}
                /\ STR_sw_js \in EmittedScripts(cfg)
                                   \ InjectedScripts(cfg, cfg.plugins[i])

C10_Witness ==
    \E cfg \in Returned :
        /\ STR_sw \in DOMAIN cfg.entry
        /\ InjectedScripts(cfg, cfg.plugins[1]) # {}
====
